---- MODULE Spec2Model ----
(***************************************************************************)
(* MacDependency (src/main.cpp): the Mach-O reader.                        *)
(*                                                                         *)
(*   extractInfoFromHeader  walks the load-command buffer of one image     *)
(*   parseMachO             classifies the file by its magic, enumerates   *)
(*                          the architecture table of a fat container and  *)
(*                          decodes each thin image                        *)
(*                                                                         *)
(* Memory and file contents are sequences of bytes.  A multi-byte value    *)
(* is the sequence of its bytes in memory order; the host is little-endian *)
(* (the program builds against the macOS SDK, <mach-o/*.h>), so a value    *)
(* read with reinterpret_cast has its least significant byte first.        *)
(* C offsets count from 0, sequences from 1.                               *)
(***************************************************************************)
EXTENDS Integers, Sequences, FiniteSets, TLC

VARIABLES
    frame,          \* the activation of extractInfoFromHeader
    file,           \* the bytes of the input file
    stream,         \* the std::ifstream: [pos, fail]
    magic,          \* uint32_t magic (main.cpp:72), as its 4 bytes
    nfat_arch,      \* fh.nfat_arch after the swap (main.cpp:88-92)
    idx,            \* the loop variable i of main.cpp:94
    fa,             \* fa_cputype, fa_cpusubtype, fa_offset and the record shape read
    is64Bit,        \* bool is64Bit (main.cpp:137, 187)
    machOInfo,      \* the record under construction (main.cpp:95, 182)
    result,         \* std::vector<MachOInfo> result (main.cpp:69)
    pc              \* the position in parseMachO

vars == <<frame, file, stream, magic, nfat_arch, idx, fa, is64Bit, machOInfo, result, pc>>

parseVars == <<file, stream, magic, nfat_arch, idx, fa, is64Bit, machOInfo, result, pc>>

----------------------------------------------------------------------------
(* Bounds of the model.                                                    *)

\* The number of load commands laid out in a command buffer.
MaxCmds == 3

\* The number of entries in an architecture table.
MaxArch == 2

----------------------------------------------------------------------------
(* Bytes and words.                                                        *)

\* Every value of 2^30 or more stands for 2^30: it exceeds the length of
\* every buffer and file of the model, and the program only ever compares
\* such a value with a length or adds it to a cursor once.
Saturation == 64 * 16777216

\* The value of a little-endian uint32_t held as 4 bytes.
U32(w) ==
    IF w[4] >= 64 THEN Saturation
    ELSE w[1] + 256 * w[2] + 65536 * w[3] + 16777216 * w[4]

\* The value of a little-endian uint64_t held as 8 bytes.
U64(w) ==
    IF \E k \in 5..8 : w[k] # 0 THEN Saturation
    ELSE U32(SubSeq(w, 1, 4))

\* The bytes of a small number as a little-endian uint32_t.
Word(n) == <<n % 256, (n \div 256) % 256, (n \div 65536) % 256, (n \div 16777216) % 256>>

Reverse(w) == [k \in 1..Len(w) |-> w[Len(w) + 1 - k]]

\* OSSwapInt32 / OSSwapInt64 on the bytes of the value.
OSSwapInt32(w) == Reverse(w)

OSSwapInt64(w) == Reverse(w)

\* The result of a read that leaves the mapped memory.
Fault == <<-1>>

Min(S) == CHOOSE x \in S : \A y \in S : x <= y

\* sizeof(struct load_command): cmd, cmdsize.
SizeofLoadCommand == 8

\* offsetof(struct dylib_command, dylib.name.offset) and
\* offsetof(struct rpath_command, path.offset): the field after cmd, cmdsize.
OffsetOfNameOffset == 8

\* The load-command types the walk dispatches on (<mach-o/loader.h>).
LC_LOAD_DYLIB == <<12, 0, 0, 0>>

LC_LOAD_WEAK_DYLIB == <<24, 0, 0, 128>>

LC_RPATH == <<28, 0, 0, 128>>

LC_ID_DYLIB == <<13, 0, 0, 0>>

----------------------------------------------------------------------------
(* extractInfoFromHeader (main.cpp:24-59).                                 *)
(*                                                                         *)
(* frame.cmds is the vector cmds, frame.heap the bytes that happen to lie  *)
(* behind it in memory: a read past cmds.size() is undefined behaviour and *)
(* yields those bytes, and past them it faults.                            *)

Mem(f) == f.cmds \o f.heap

\* *(uint32_t *)(base + at), base the start of cmds.
ReadWord(mem, at) ==
    IF at + 4 <= Len(mem) THEN SubSeq(mem, at + 1, at + 4) ELSE Fault

\* The C string at base + at: the bytes up to the first NUL.
CString(mem, at) ==
    LET nuls == {k \in (at + 1)..Len(mem) : mem[k] = 0}
    IN  IF nuls = {} THEN Fault ELSE SubSeq(mem, at + 1, Min(nuls) - 1)

\* lc->cmd and lc->cmdsize of the command at the cursor (main.cpp:38-41).
CmdAt(f) == ReadWord(f.cmds, f.arrIndex)

CmdSizeAt(f) == U32(ReadWord(f.cmds, f.arrIndex + 4))

\* (char *)cmd_struct + cmd_struct->dylib.name.offset, as a string
\* (main.cpp:44-46, 48-50, 52-54).
NameAt(f) ==
    LET off == ReadWord(Mem(f), f.arrIndex + OffsetOfNameOffset)
    IN  IF off = Fault THEN Fault
        ELSE CString(Mem(f), f.arrIndex + U32(off))

\* i < ncmds (main.cpp:33).
LoopCondition(f) == f.i < f.ncmds

\* The array boundary check (main.cpp:34).
BoundaryCheck(f) ==
    \/ f.arrIndex > Len(f.cmds)
    \/ f.arrIndex + SizeofLoadCommand > Len(f.cmds)

IsLoadDylibOnly(cmd) == cmd = LC_LOAD_DYLIB

\* cmd == LC_LOAD_DYLIB || cmd == LC_LOAD_WEAK_DYLIB (main.cpp:43).
IsLoadDylib(cmd) == cmd = LC_LOAD_DYLIB \/ cmd = LC_LOAD_WEAK_DYLIB

\* cmd == LC_RPATH (main.cpp:47).
IsRpath(cmd) == cmd = LC_RPATH

\* cmd == LC_ID_DYLIB (main.cpp:51).
IsIdDylib(cmd) == cmd = LC_ID_DYLIB

KeepFirstDylibId(old, name) == IF old = <<>> THEN name ELSE old

\* machOInfo.dylib_id = name (main.cpp:54).
AssignDylibId(old, name) == name

\* arrIndex += cmdsize, and the loop's i++ (main.cpp:57, 33).
Advance(f) == [f EXCEPT !.arrIndex = @ + CmdSizeAt(f), !.i = @ + 1]

\* One evaluation of the loop of main.cpp:33-58: the exit, the break, or
\* one command consumed.
WalkStep(f) ==
    IF ~LoopCondition(f) THEN [f EXCEPT !.pc = "done"]
    ELSE IF BoundaryCheck(f) THEN [f EXCEPT !.pc = "done"]
    ELSE IF IsLoadDylib(CmdAt(f)) THEN
        IF NameAt(f) = Fault THEN [f EXCEPT !.pc = "crashed"]
        ELSE Advance([f EXCEPT !.deps = Append(@, NameAt(f))])
    ELSE IF IsRpath(CmdAt(f)) THEN
        IF NameAt(f) = Fault THEN [f EXCEPT !.pc = "crashed"]
        ELSE Advance([f EXCEPT !.rpaths = Append(@, NameAt(f))])
    ELSE IF IsIdDylib(CmdAt(f)) THEN
        IF NameAt(f) = Fault THEN [f EXCEPT !.pc = "crashed"]
        ELSE Advance([f EXCEPT !.dylib_id = AssignDylibId(@, NameAt(f))])
    ELSE Advance(f)

\* The entry of extractInfoFromHeader (main.cpp:26-32): cmds holds the
\* sizeofcmds bytes read, the cursor is 0 and machOInfo is the caller's.
EnterWalk(cmds, heap, ncmds, info) ==
    [cmds |-> cmds, heap |-> heap, ncmds |-> ncmds, i |-> 0, arrIndex |-> 0,
     deps |-> info.deps, rpaths |-> info.rpaths, dylib_id |-> info.dylib_id,
     pc |-> "loop"]

\* No activation of extractInfoFromHeader.
NoFrame ==
    [cmds |-> <<>>, heap |-> <<>>, ncmds |-> 0, i |-> 0, arrIndex |-> 0,
     deps |-> <<>>, rpaths |-> <<>>, dylib_id |-> <<>>, pc |-> "idle"]

\* struct MachOInfo as default-constructed (main.cpp:17-22, 95, 182).
EmptyInfo == [arch |-> "", dylib_id |-> <<>>, deps |-> <<>>, rpaths |-> <<>>]

----------------------------------------------------------------------------
(* Command buffers the walk is run on: up to MaxCmds commands laid out as  *)
(* struct dylib_command / struct rpath_command (<mach-o/loader.h>), intact *)
(* ones and damaged ones.                                                  *)

PathA == <<47, 97>>

PathB == <<47, 98>>

\* A path with its NUL, padded with NULs to a multiple of 4 bytes.
Padded(p) == p \o [k \in 1..(4 - (Len(p) % 4)) |-> 0]

\* struct dylib_command: cmd, cmdsize, name.offset, timestamp,
\* current_version, compatibility_version, then the string.
DylibCommand(cmd, cmdsize, offset, str) ==
    cmd \o Word(cmdsize) \o Word(offset) \o Word(2) \o Word(65536) \o Word(65536) \o str

\* struct rpath_command: cmd, cmdsize, path.offset, then the string.
RpathCommand(cmdsize, offset, str) ==
    LC_RPATH \o Word(cmdsize) \o Word(offset) \o str

\* A command of a type the walk does not interpret (LC_UUID's number).
OtherCommand == <<27, 0, 0, 0>> \o Word(12) \o <<8, 0, 0, 0>>

IntactCommands ==
    {DylibCommand(LC_LOAD_DYLIB, 28, 24, Padded(PathA)),
     DylibCommand(LC_LOAD_WEAK_DYLIB, 28, 24, Padded(PathB)),
     DylibCommand(LC_ID_DYLIB, 28, 24, Padded(PathA)),
     DylibCommand(LC_ID_DYLIB, 28, 24, Padded(PathB)),
     RpathCommand(16, 12, Padded(PathA)),
     RpathCommand(16, 12, Padded(PathB)),
     OtherCommand}

DamagedCommands ==
    {\* cmdsize 0 and cmdsize below sizeof(load_command)
     DylibCommand(LC_LOAD_DYLIB, 0, 24, Padded(PathA)),
     \* cmdsize beyond the end of the buffer
     RpathCommand(200, 12, Padded(PathA)),
     \* the string offset at the end of the command
     DylibCommand(LC_ID_DYLIB, 28, 28, Padded(PathB)),
     \* no NUL before the end of the command
     RpathCommand(16, 12, <<47, 97, 47, 98>>),
     \* the offset field itself outside the command
     LC_RPATH \o Word(8)}

Commands == IntactCommands \cup DamagedCommands

RECURSIVE Flatten(_)
Flatten(ss) == IF ss = <<>> THEN <<>> ELSE Head(ss) \o Flatten(Tail(ss))

CommandLists == UNION {[1..n -> Commands] : n \in 0..MaxCmds}

\* What lies behind the vector: unmapped memory, or a few bytes of it.
Heaps == {<<>>, <<98, 0, 0, 0, 0>>}

InitWalk ==
    /\ \E cl \in CommandLists, heap \in Heaps :
         \E n \in {Len(cl), Len(cl) + 1} :
            frame = EnterWalk(Flatten(cl), heap, n, EmptyInfo)
    /\ file = <<>>
    /\ stream = [pos |-> 0, fail |-> FALSE]
    /\ magic = <<0, 0, 0, 0>>
    /\ nfat_arch = 0
    /\ idx = 0
    /\ fa = [cputype |-> <<0, 0, 0, 0>>, cpusubtype |-> <<0, 0, 0, 0>>, offset |-> 0, shape |-> 0]
    /\ is64Bit = FALSE
    /\ machOInfo = EmptyInfo
    /\ result = <<>>
    /\ pc = "walk"

Walking == frame.pc = "loop"

\* The loop ends: i reached ncmds (main.cpp:33).
WalkExit ==
    /\ Walking /\ ~LoopCondition(frame)
    /\ frame' = WalkStep(frame)
    /\ UNCHANGED parseVars

\* The boundary check breaks the loop (main.cpp:34-37).
WalkBreak ==
    /\ Walking /\ LoopCondition(frame) /\ BoundaryCheck(frame)
    /\ frame' = WalkStep(frame)
    /\ UNCHANGED parseVars

Consuming == Walking /\ LoopCondition(frame) /\ ~BoundaryCheck(frame)

\* main.cpp:43-46, 57.
WalkLoadDylib ==
    /\ Consuming /\ IsLoadDylib(CmdAt(frame))
    /\ frame' = WalkStep(frame)
    /\ UNCHANGED parseVars

\* main.cpp:47-50, 57.
WalkRpath ==
    /\ Consuming /\ IsRpath(CmdAt(frame))
    /\ frame' = WalkStep(frame)
    /\ UNCHANGED parseVars

\* main.cpp:51-54, 57.
WalkIdDylib ==
    /\ Consuming /\ IsIdDylib(CmdAt(frame))
    /\ frame' = WalkStep(frame)
    /\ UNCHANGED parseVars

\* A command of any other type: main.cpp:57 alone.
WalkOther ==
    /\ Consuming
    /\ ~IsLoadDylib(CmdAt(frame)) /\ ~IsRpath(CmdAt(frame)) /\ ~IsIdDylib(CmdAt(frame))
    /\ frame' = WalkStep(frame)
    /\ UNCHANGED parseVars

NextWalk ==
    \/ WalkExit
    \/ WalkBreak
    \/ WalkLoadDylib
    \/ WalkRpath
    \/ WalkIdDylib
    \/ WalkOther

SpecWalk == InitWalk /\ [][NextWalk]_vars

----------------------------------------------------------------------------
(* parseMachO (main.cpp:61-206).                                           *)

\* The magic numbers of <mach-o/loader.h> and <mach-o/fat.h>, each as the
\* bytes of the uint32_t in host memory: magic == FAT_MAGIC holds when the
\* file's first four bytes are these.
FAT_MAGIC == <<190, 186, 254, 202>>

FAT_CIGAM == <<202, 254, 186, 190>>

FAT_MAGIC_64 == <<191, 186, 254, 202>>

FAT_CIGAM_64 == <<202, 254, 186, 191>>

MH_MAGIC == <<206, 250, 237, 254>>

MH_CIGAM == <<254, 237, 250, 206>>

MH_MAGIC_64 == <<207, 250, 237, 254>>

MH_CIGAM_64 == <<254, 237, 250, 207>>

\* sizeof of the structs read from the file.
SizeofFatHeader == 8

SizeofFatArch == 20

SizeofFatArch64 == 32

SizeofMachHeader == 28

SizeofMachHeader64 == 32

Zeros(n) == [k \in 1..n |-> 0]

\* file.seekg(to): nothing on a failed stream; a position past the end of
\* the file is accepted and the next read fails.
Seekg(st, to) == IF st.fail THEN st ELSE [st EXCEPT !.pos = to]

\* file.read(buf, n), buf holding old: nothing on a failed stream; the n
\* bytes at the position; or, with fewer than n left, those bytes in front
\* of the rest of old, and the stream failed from then on (no clear() in
\* the program); a read of no bytes changes nothing.  ReadData is what
\* buf holds afterwards, ReadStream the stream.
ReadData(f, st, n, old) ==
    IF st.fail THEN old
    ELSE IF n = 0 THEN <<>>
    ELSE IF st.pos + n <= Len(f) THEN SubSeq(f, st.pos + 1, st.pos + n)
    ELSE LET got == IF st.pos >= Len(f) THEN <<>> ELSE SubSeq(f, st.pos + 1, Len(f))
         IN  got \o SubSeq(old, Len(got) + 1, n)

ReadStream(f, st, n) ==
    IF st.fail \/ n = 0 THEN st
    ELSE IF st.pos + n <= Len(f) THEN [st EXCEPT !.pos = st.pos + n]
    ELSE [pos |-> Len(f), fail |-> TRUE]

NoArch == ""

\* NXGetArchInfoFromCpuType(cputype, cpusubtype)->name, NoArch for NULL:
\* the library's table, of which the model knows x86_64 and arm64.
ArchName(cputype, cpusubtype) ==
    IF cputype = <<7, 0, 0, 1>> /\ cpusubtype = <<3, 0, 0, 0>> THEN "x86_64"
    ELSE IF cputype = <<12, 0, 0, 1>> /\ cpusubtype = <<0, 0, 0, 0>> THEN "arm64"
    ELSE NoArch

IsFatMagic(m) == m \in {FAT_MAGIC, FAT_MAGIC_64, FAT_CIGAM, FAT_CIGAM_64}

IsThinMagic(m) == m \in {MH_MAGIC, MH_MAGIC_64, MH_CIGAM, MH_CIGAM_64}

\* fh.nfat_arch after main.cpp:88-92.  OSSwapInt64 takes the 32-bit field
\* widened to 64 bits, and the assignment keeps the low 32 bits of its
\* result.
SwapCount(m, n) ==
    IF m = FAT_MAGIC_64 THEN SubSeq(OSSwapInt64(n \o Zeros(4)), 1, 4)
    ELSE OSSwapInt32(n)

\* The record shape of main.cpp:102: fat_arch_64 or fat_arch.
ArchShape(m) == IF m = FAT_MAGIC_64 THEN 64 ELSE 32

\* bool is64Bit = magic == MH_MAGIC_64 (main.cpp:137, 187).
Is64Bit(m) == m = MH_MAGIC_64

\* The fields of a mach_header / mach_header_64 held as its bytes.
CpuTypeOf(mh) == SubSeq(mh, 5, 8)

CpuSubtypeOf(mh) == SubSeq(mh, 9, 12)

NcmdsOf(mh) == U32(SubSeq(mh, 17, 20))

SizeofcmdsOf(mh) == U32(SubSeq(mh, 21, 24))

\* The largest sizeofcmds and ncmds the model follows.
MaxSizeofcmds == 96

MaxNcmds == 4

RECURSIVE RunWalk(_)
RunWalk(f) == IF f.pc = "loop" THEN RunWalk(WalkStep(f)) ELSE f

\* The header of main.cpp:140-141, 144-145, 190-191, 194-195: a zeroed
\* mach_header_64 or mach_header filled by file.read.
HeaderRead(f, st, is64) ==
    LET size == IF is64 THEN SizeofMachHeader64 ELSE SizeofMachHeader
    IN  ReadData(f, st, size, Zeros(size))

AfterHeader(f, st, is64) ==
    ReadStream(f, st, IF is64 THEN SizeofMachHeader64 ELSE SizeofMachHeader)

\* The model follows a walk of up to MaxNcmds commands over up to
\* MaxSizeofcmds bytes, and any image of no commands.
ImageInBounds(f, st, is64) ==
    \/ NcmdsOf(HeaderRead(f, st, is64)) = 0
    \/ /\ SizeofcmdsOf(HeaderRead(f, st, is64)) <= MaxSizeofcmds
       /\ NcmdsOf(HeaderRead(f, st, is64)) <= MaxNcmds

\* extractInfoFromHeader as called at main.cpp:142, 146, 192, 196: cmds
\* is a vector of sizeofcmds zero bytes filled by file.read (main.cpp:
\* 29-30), and the walk runs to its end.  With ncmds = 0 the walk reads
\* nothing of cmds, which then stands empty here.
ExtractFrame(f, st, is64, heap, info) ==
    LET mh   == HeaderRead(f, st, is64)
        size == SizeofcmdsOf(mh)
        cmds == IF NcmdsOf(mh) = 0 THEN <<>>
                ELSE ReadData(f, AfterHeader(f, st, is64), size, Zeros(size))
    IN  RunWalk(EnterWalk(cmds, heap, NcmdsOf(mh), info))

\* The stream after the header and the sizeofcmds bytes were read.
AfterImage(f, st, is64) ==
    ReadStream(f, AfterHeader(f, st, is64), SizeofcmdsOf(HeaderRead(f, st, is64)))

InfoOf(f, arch) ==
    [arch |-> arch, dylib_id |-> f.dylib_id, deps |-> f.deps, rpaths |-> f.rpaths]

\* main.cpp:72-74: the first four bytes into the uninitialized magic, and
\* back to offset 0.
ReadMagic ==
    /\ pc = "start"
    /\ magic' = ReadData(file, stream, 4, magic)
    /\ stream' = Seekg(ReadStream(file, stream, 4), 0)
    /\ pc' = "switch"
    /\ UNCHANGED <<frame, file, nfat_arch, idx, fa, is64Bit, machOInfo, result>>

\* main.cpp:201-203: not a Mach-O file.
NotMachO ==
    /\ pc = "switch"
    /\ ~IsFatMagic(magic) /\ ~IsThinMagic(magic)
    /\ result' = <<>>
    /\ pc' = "done"
    /\ UNCHANGED <<frame, file, stream, magic, nfat_arch, idx, fa, is64Bit, machOInfo>>

\* main.cpp:85-92: the fat header and its count.
FatHeader ==
    /\ pc = "switch"
    /\ IsFatMagic(magic)
    /\ LET fh == ReadData(file, stream, SizeofFatHeader, Zeros(SizeofFatHeader))
       IN  nfat_arch' = U32(SwapCount(magic, SubSeq(fh, 5, 8)))
    /\ stream' = ReadStream(file, stream, SizeofFatHeader)
    /\ idx' = 0
    /\ pc' = "fatLoop"
    /\ UNCHANGED <<frame, file, magic, fa, is64Bit, machOInfo, result>>

\* main.cpp:94: the architectures are exhausted; main.cpp:205.
FatDone ==
    /\ pc = "fatLoop"
    /\ ~(idx < nfat_arch)
    /\ pc' = "done"
    /\ UNCHANGED <<frame, file, stream, magic, nfat_arch, idx, fa, is64Bit, machOInfo, result>>

\* main.cpp:95-118: entry idx of the architecture table, in the shape the
\* current value of magic selects.
FatArchRead ==
    /\ pc = "fatLoop"
    /\ idx < nfat_arch
    /\ machOInfo' = EmptyInfo
    /\ IF ArchShape(magic) = 64
       THEN LET at  == Seekg(stream, SizeofFatHeader + idx * SizeofFatArch64)
                rec == ReadData(file, at, SizeofFatArch64, Zeros(SizeofFatArch64))
            IN  /\ fa' = [cputype |-> OSSwapInt32(SubSeq(rec, 1, 4)),
                          cpusubtype |-> OSSwapInt32(SubSeq(rec, 5, 8)),
                          offset |-> U64(OSSwapInt64(SubSeq(rec, 9, 16))),
                          shape |-> 64]
                /\ stream' = ReadStream(file, at, SizeofFatArch64)
       ELSE LET at  == Seekg(stream, SizeofFatHeader + idx * SizeofFatArch)
                rec == ReadData(file, at, SizeofFatArch, Zeros(SizeofFatArch))
            IN  /\ fa' = [cputype |-> OSSwapInt32(SubSeq(rec, 1, 4)),
                          cpusubtype |-> OSSwapInt32(SubSeq(rec, 5, 8)),
                          offset |-> U32(OSSwapInt32(SubSeq(rec, 9, 12))),
                          shape |-> 32]
                /\ stream' = ReadStream(file, at, SizeofFatArch)
    /\ pc' = "resolve"
    /\ UNCHANGED <<frame, file, magic, nfat_arch, idx, is64Bit, result>>

\* main.cpp:120-124: no architecture name, on to the next entry.
ArchUnresolved ==
    /\ pc = "resolve"
    /\ ArchName(fa.cputype, fa.cpusubtype) = NoArch
    /\ idx' = idx + 1
    /\ pc' = "fatLoop"
    /\ UNCHANGED <<frame, file, stream, magic, nfat_arch, fa, is64Bit, machOInfo, result>>

\* main.cpp:120, 128-137: the name, and the magic at the slice's offset
\* read into the same variable magic.
ArchResolved ==
    /\ pc = "resolve"
    /\ ArchName(fa.cputype, fa.cpusubtype) # NoArch
    /\ machOInfo' = [machOInfo EXCEPT !.arch = ArchName(fa.cputype, fa.cpusubtype)]
    /\ LET at == Seekg(stream, fa.offset)
       IN  /\ magic' = ReadData(file, at, 4, magic)
           /\ stream' = Seekg(ReadStream(file, at, 4), fa.offset)
           /\ is64Bit' = Is64Bit(ReadData(file, at, 4, magic))
    /\ pc' = "slice"
    /\ UNCHANGED <<frame, file, nfat_arch, idx, fa, result>>

\* main.cpp:139-148: the slice's header and commands, and its record.
FatSlice ==
    /\ pc = "slice"
    /\ ImageInBounds(file, stream, is64Bit)
    /\ \E heap \in Heaps :
         LET f == ExtractFrame(file, stream, is64Bit, heap, machOInfo)
         IN  /\ stream' = AfterImage(file, stream, is64Bit)
             /\ IF f.pc = "crashed"
                THEN /\ pc' = "crashed"
                     /\ UNCHANGED <<machOInfo, result, idx>>
                ELSE /\ machOInfo' = InfoOf(f, machOInfo.arch)
                     /\ result' = Append(result, InfoOf(f, machOInfo.arch))
                     /\ idx' = idx + 1
                     /\ pc' = "fatLoop"
    /\ UNCHANGED <<frame, file, magic, nfat_arch, fa, is64Bit>>

\* main.cpp:158-177: a thin file whose header names no known architecture.
ThinUnresolved ==
    /\ pc = "switch"
    /\ IsThinMagic(magic)
    /\ LET mh == HeaderRead(file, stream, magic = MH_MAGIC_64)
       IN  ArchName(CpuTypeOf(mh), CpuSubtypeOf(mh)) = NoArch
    /\ stream' = AfterHeader(file, stream, magic = MH_MAGIC_64)
    /\ pc' = "done"
    /\ UNCHANGED <<frame, file, magic, nfat_arch, idx, fa, is64Bit, machOInfo, result>>

\* main.cpp:158-187: the architecture name of a thin file, and back to
\* offset 0.
ThinHeader ==
    /\ pc = "switch"
    /\ IsThinMagic(magic)
    /\ LET mh == HeaderRead(file, stream, magic = MH_MAGIC_64)
       IN  /\ ArchName(CpuTypeOf(mh), CpuSubtypeOf(mh)) # NoArch
           /\ machOInfo' = [EmptyInfo EXCEPT !.arch = ArchName(CpuTypeOf(mh), CpuSubtypeOf(mh))]
    /\ stream' = Seekg(AfterHeader(file, stream, magic = MH_MAGIC_64), 0)
    /\ is64Bit' = Is64Bit(magic)
    /\ pc' = "thin"
    /\ UNCHANGED <<frame, file, magic, nfat_arch, idx, fa, result>>

\* main.cpp:189-198, 205: the thin file's header and commands, its record.
ThinImage ==
    /\ pc = "thin"
    /\ ImageInBounds(file, stream, is64Bit)
    /\ \E heap \in Heaps :
         LET f == ExtractFrame(file, stream, is64Bit, heap, machOInfo)
         IN  /\ stream' = AfterImage(file, stream, is64Bit)
             /\ IF f.pc = "crashed"
                THEN /\ pc' = "crashed"
                     /\ UNCHANGED <<machOInfo, result>>
                ELSE /\ machOInfo' = InfoOf(f, machOInfo.arch)
                     /\ result' = Append(result, InfoOf(f, machOInfo.arch))
                     /\ pc' = "done"
    /\ UNCHANGED <<frame, file, magic, nfat_arch, idx, fa, is64Bit>>

----------------------------------------------------------------------------
(* The files parseMachO is run on.                                         *)

X86_64 == [cputype |-> <<7, 0, 0, 1>>, cpusubtype |-> <<3, 0, 0, 0>>]

ARM64 == [cputype |-> <<12, 0, 0, 1>>, cpusubtype |-> <<0, 0, 0, 0>>]

UnknownCpu == [cputype |-> <<99, 0, 0, 0>>, cpusubtype |-> <<0, 0, 0, 0>>]

Cpus == {X86_64, ARM64, UnknownCpu}

\* A thin image in host byte order: mach_header (magic, cputype,
\* cpusubtype, filetype, ncmds, sizeofcmds, flags), the reserved word of
\* mach_header_64 when the magic is a 64-bit one, and the commands.
Image(m, cpu, cl) ==
    m \o cpu.cputype \o cpu.cpusubtype \o Word(6) \o Word(Len(cl))
      \o Word(Len(Flatten(cl))) \o Word(133)
      \o (IF m \in {MH_MAGIC_64, MH_CIGAM_64} THEN Word(0) ELSE <<>>)
      \o Flatten(cl)

CommandsA ==
    <<DylibCommand(LC_LOAD_DYLIB, 28, 24, Padded(PathA)),
      RpathCommand(16, 12, Padded(PathB))>>

CommandsB ==
    <<DylibCommand(LC_ID_DYLIB, 28, 24, Padded(PathB)),
      DylibCommand(LC_LOAD_WEAK_DYLIB, 28, 24, Padded(PathB))>>

\* Bytes at a slice's offset that are no Mach-O image.
NotAnImage(m) == m \o Zeros(28)

\* What an architecture-table entry can point at: an image, bytes that are
\* no image, or (the empty sequence) an offset past the end of the file.
SlicesOf(cpu) ==
    {Image(MH_MAGIC, cpu, CommandsA),
     Image(MH_MAGIC_64, cpu, CommandsA),
     Image(MH_MAGIC_64, cpu, CommandsB),
     Image(MH_CIGAM_64, cpu, CommandsA),
     NotAnImage(FAT_MAGIC_64),
     NotAnImage(<<35, 33, 47, 98>>),
     <<>>}

Entries == UNION {{[cpu |-> c, slice |-> sl] : sl \in SlicesOf(c)} : c \in Cpus}

\* A number as a big-endian 32-bit and 64-bit field.
BE32(n) == Reverse(Word(n))

BE64(n) == Zeros(4) \o Reverse(Word(n))

RECURSIVE SumLen(_, _)
SumLen(es, k) == IF k = 0 THEN 0 ELSE SumLen(es, k - 1) + Len(es[k].slice)

\* How far past the end of the file the offset of a missing slice lies.
PastEnd == 64

\* A fat container: fat_header (magic, big-endian nfat_arch), the table of
\* big-endian fat_arch or fat_arch_64 records, and the slices one after
\* another.
FatFile(m, es) ==
    LET rec    == IF m \in {FAT_MAGIC_64, FAT_CIGAM_64} THEN SizeofFatArch64 ELSE SizeofFatArch
        base   == SizeofFatHeader + Len(es) * rec
        total  == base + SumLen(es, Len(es))
        off(k) == IF es[k].slice = <<>> THEN total + PastEnd ELSE base + SumLen(es, k - 1)
        entry(k) ==
            IF rec = SizeofFatArch64
            THEN Reverse(es[k].cpu.cputype) \o Reverse(es[k].cpu.cpusubtype)
                 \o BE64(off(k)) \o BE64(Len(es[k].slice)) \o BE32(14) \o BE32(0)
            ELSE Reverse(es[k].cpu.cputype) \o Reverse(es[k].cpu.cpusubtype)
                 \o BE32(off(k)) \o BE32(Len(es[k].slice)) \o BE32(14)
    IN  m \o BE32(Len(es))
          \o Flatten([k \in 1..Len(es) |-> entry(k)])
          \o Flatten([k \in 1..Len(es) |-> es[k].slice])

FatFiles ==
    {FatFile(m, es) : m \in {FAT_MAGIC, FAT_CIGAM, FAT_MAGIC_64, FAT_CIGAM_64},
                      es \in UNION {[1..n -> Entries] : n \in 0..MaxArch}}

ThinFiles ==
    {Image(m, c, cl) : m \in {MH_MAGIC, MH_MAGIC_64, MH_CIGAM, MH_CIGAM_64},
                       c \in Cpus, cl \in {CommandsA, CommandsB}}

\* Files that are no Mach-O file, two of them too short to hold a magic.
OtherFiles == {<<>>, <<202, 254>>, <<35, 33, 47, 98, 105, 110>>}

Files == FatFiles \cup ThinFiles \cup OtherFiles

\* The values the uninitialized magic can hold when the file is too short
\* to fill it.
Indeterminate == {FAT_CIGAM, FAT_MAGIC_64, MH_MAGIC_64, MH_CIGAM, <<0, 0, 0, 0>>}

Init ==
    /\ file \in Files
    /\ magic \in (IF Len(file) < 4 THEN Indeterminate ELSE {<<0, 0, 0, 0>>})
    /\ stream = [pos |-> 0, fail |-> FALSE]
    /\ frame = NoFrame
    /\ nfat_arch = 0
    /\ idx = 0
    /\ fa = [cputype |-> <<0, 0, 0, 0>>, cpusubtype |-> <<0, 0, 0, 0>>, offset |-> 0, shape |-> 0]
    /\ is64Bit = FALSE
    /\ machOInfo = EmptyInfo
    /\ result = <<>>
    /\ pc = "start"

Next ==
    \/ ReadMagic
    \/ NotMachO
    \/ FatHeader
    \/ FatDone
    \/ FatArchRead
    \/ ArchUnresolved
    \/ ArchResolved
    \/ FatSlice
    \/ ThinUnresolved
    \/ ThinHeader
    \/ ThinImage

Spec == Init /\ [][Next]_vars

----------------------------------------------------------------------------
(* The on-disk reading of a command buffer, by the format alone: command   *)
(* k+1 starts where command k ends, a path is the bytes from its offset to *)
(* the first NUL inside its command.                                       *)

PathCommandTypes == {LC_LOAD_DYLIB, LC_LOAD_WEAK_DYLIB, LC_RPATH, LC_ID_DYLIB}

TypeOf(buf, at) == SubSeq(buf, at + 1, at + 4)

SizeOf(buf, at) == U32(SubSeq(buf, at + 5, at + 8))

PathOffsetOf(buf, at) == U32(SubSeq(buf, at + 9, at + 12))

\* The path's offset field and offset lie inside the command and a NUL
\* follows the offset before the command's end.
PathInsideCommand(buf, at) ==
    /\ SizeOf(buf, at) >= 12
    /\ PathOffsetOf(buf, at) < SizeOf(buf, at)
    /\ \E k \in (at + PathOffsetOf(buf, at) + 1)..(at + SizeOf(buf, at)) : buf[k] = 0

PathOf(buf, at) ==
    LET from == at + PathOffsetOf(buf, at) + 1
        nul  == Min({k \in from..(at + SizeOf(buf, at)) : buf[k] = 0})
    IN  SubSeq(buf, from, nul - 1)

RECURSIVE WellFormedFrom(_, _, _)
WellFormedFrom(buf, at, n) ==
    \/ n = 0
    \/ /\ at + 8 <= Len(buf)
       /\ SizeOf(buf, at) >= 8
       /\ at + SizeOf(buf, at) <= Len(buf)
       /\ TypeOf(buf, at) \in PathCommandTypes => PathInsideCommand(buf, at)
       /\ WellFormedFrom(buf, at + SizeOf(buf, at), n - 1)

RECURSIVE PathsFrom(_, _, _, _)
PathsFrom(buf, at, n, types) ==
    IF n = 0 THEN <<>>
    ELSE (IF TypeOf(buf, at) \in types THEN <<PathOf(buf, at)>> ELSE <<>>)
         \o PathsFrom(buf, at + SizeOf(buf, at), n - 1, types)

\* Where the k-th command consumed by the walk starts (k from 0): the sum
\* of the command_size values before it.
RECURSIVE StartOf(_, _)
StartOf(buf, k) ==
    IF k = 0 THEN 0 ELSE StartOf(buf, k - 1) + SizeOf(buf, StartOf(buf, k - 1))

WalkEnded == frame.pc = "done"

\* The ID_DYLIB commands among those consumed so far.
IdsConsumed ==
    {k \in 0..(frame.i - 1) : TypeOf(frame.cmds, StartOf(frame.cmds, k)) = LC_ID_DYLIB}

Max(S) == CHOOSE x \in S : \A y \in S : x >= y

\* The C string the k-th consumed command's offset field points at.
StringOfConsumed(k) ==
    LET at == StartOf(frame.cmds, k)
    IN  CString(Mem(frame), at + U32(ReadWord(Mem(frame), at + 8)))

\* C1: when every one of the ncmds commands is well formed, the walk ends
\* with deps the paths of exactly the LOAD_DYLIB and LOAD_WEAK_DYLIB
\* commands and rpaths the paths of exactly the RPATH commands, each in
\* on-disk order.
C1_PathsInOrder ==
    (WalkEnded /\ WellFormedFrom(frame.cmds, 0, frame.ncmds)) =>
        /\ frame.deps = PathsFrom(frame.cmds, 0, frame.ncmds, {LC_LOAD_DYLIB, LC_LOAD_WEAK_DYLIB})
        /\ frame.rpaths = PathsFrom(frame.cmds, 0, frame.ncmds, {LC_RPATH})

\* A well-formed buffer of three commands walked to its end: two different
\* dependencies with a search path among the commands.
C1_Witness ==
    /\ WalkEnded
    /\ frame.ncmds = 3
    /\ WellFormedFrom(frame.cmds, 0, frame.ncmds)
    /\ Len(frame.deps) = 2
    /\ frame.deps[1] # frame.deps[2]
    /\ Len(frame.rpaths) = 1

\* C3: a command at the cursor whose command_size is below 8 or above the
\* bytes remaining ends the walk there: nothing is extracted from it and
\* the cursor does not move.
C3_StopsAtBadSize ==
    [][(Consuming /\ (\/ CmdSizeAt(frame) < 8
                      \/ CmdSizeAt(frame) > Len(frame.cmds) - frame.arrIndex))
        => /\ frame'.pc = "done"
           /\ frame'.arrIndex = frame.arrIndex
           /\ frame'.deps = frame.deps
           /\ frame'.rpaths = frame.rpaths
           /\ frame'.dylib_id = frame.dylib_id]_vars

\* C4: the cursor, the sum of the command_size values consumed, never
\* exceeds the length of the command buffer.
C4_CursorWithinBuffer == frame.arrIndex <= Len(frame.cmds)

\* C8: for a path command of a sound size whose path does not lie inside
\* it, the field is skipped: nothing is appended or assigned, no read
\* leaves the buffer, and the walk goes on with the next command.
C8_BadPathSkipped ==
    [][(/\ Consuming
        /\ CmdAt(frame) \in PathCommandTypes
        /\ CmdSizeAt(frame) >= 8
        /\ CmdSizeAt(frame) <= Len(frame.cmds) - frame.arrIndex
        /\ ~PathInsideCommand(frame.cmds, frame.arrIndex))
        => /\ frame'.pc = "loop"
           /\ frame'.i = frame.i + 1
           /\ frame'.arrIndex = frame.arrIndex + CmdSizeAt(frame)
           /\ frame'.deps = frame.deps
           /\ frame'.rpaths = frame.rpaths
           /\ frame'.dylib_id = frame.dylib_id]_vars

\* C9: dylib_id is the string of the last ID_DYLIB command consumed, empty
\* when none was consumed; a command of another type leaves it as it is.
C9_LastIdDylib ==
    frame.pc \in {"loop", "done"} =>
        frame.dylib_id = (IF IdsConsumed = {} THEN <<>>
                          ELSE StringOfConsumed(Max(IdsConsumed)))

\* Two ID_DYLIB commands with different strings consumed, then a command
\* of another type, and the walk at its end.
C9_Witness ==
    /\ WalkEnded
    /\ frame.i = 3
    /\ IdsConsumed = {0, 1}
    /\ StringOfConsumed(0) # StringOfConsumed(1)
    /\ frame.dylib_id = StringOfConsumed(1)

----------------------------------------------------------------------------
(* The on-disk reading of a fat container, by the format alone: the count  *)
(* and every field of the table big-endian, the record shape by the width  *)
(* class of the container's magic.                                         *)

ContainerMagic == SubSeq(file, 1, 4)

IsFatFile == Len(file) >= SizeofFatHeader /\ IsFatMagic(ContainerMagic)

ShapeByWidth(m) == IF m \in {FAT_MAGIC_64, FAT_CIGAM_64} THEN 64 ELSE 32

Is64ByWidth(m) == m \in {MH_MAGIC_64, MH_CIGAM_64}

TableCount == U32(Reverse(SubSeq(file, 5, 8)))

RecordSize == IF ShapeByWidth(ContainerMagic) = 64 THEN 32 ELSE 20

\* Entry j of the table (j from 0).
RecordAt(j) == SubSeq(file, 8 + j * RecordSize + 1, 8 + (j + 1) * RecordSize)

EntryInFile(j) == 8 + (j + 1) * RecordSize <= Len(file)

EntryName(j) ==
    IF EntryInFile(j)
    THEN ArchName(Reverse(SubSeq(RecordAt(j), 1, 4)), Reverse(SubSeq(RecordAt(j), 5, 8)))
    ELSE NoArch

EntryOffset(j) ==
    IF ShapeByWidth(ContainerMagic) = 64
    THEN U64(Reverse(SubSeq(RecordAt(j), 9, 16)))
    ELSE U32(Reverse(SubSeq(RecordAt(j), 9, 12)))

\* The entries that resolve to an architecture name, in table order.
Resolving ==
    SelectSeq([k \in 1..TableCount |-> k - 1], LAMBDA j : EntryName(j) # NoArch)

\* The slice of entry j holds a Mach-O magic, its header and its
\* sizeofcmds bytes inside the file.
SliceIntact(j) ==
    LET at   == EntryOffset(j)
        size == IF Is64Bit(SubSeq(file, at + 1, at + 4))
                THEN SizeofMachHeader64 ELSE SizeofMachHeader
    IN  /\ at + SizeofMachHeader64 <= Len(file)
        /\ IsThinMagic(SubSeq(file, at + 1, at + 4))
        /\ at + size + SizeofcmdsOf(SubSeq(file, at + 1, at + size)) <= Len(file)

\* The slice of entry j cannot be decoded: its first bytes lie past the
\* end of the file, or its magic is no Mach-O magic.
SliceFails(j) ==
    \/ EntryOffset(j) + 4 > Len(file)
    \/ ~IsThinMagic(SubSeq(file, EntryOffset(j) + 1, EntryOffset(j) + 4))

\* The records entry j yields when its slice is decoded on a stream that
\* has not failed, one for each content of the memory behind cmds.
RecordsAlone(j) ==
    LET at == [pos |-> EntryOffset(j), fail |-> FALSE]
        m  == SubSeq(file, EntryOffset(j) + 1, EntryOffset(j) + 4)
    IN  {InfoOf(ExtractFrame(file, at, Is64Bit(m), heap, EmptyInfo), EntryName(j)) :
            heap \in Heaps}

Returned == pc = "done"

\* C2: a fat container yields one record per table entry that resolves to
\* an architecture name, in table order.
C2_RecordPerResolvingEntry ==
    (Returned /\ IsFatFile) =>
        /\ Len(result) = Len(Resolving)
        /\ \A k \in 1..Len(Resolving) : result[k].arch = EntryName(Resolving[k])

\* C5: in a container of a 32-bit fat magic, an intact resolving slice
\* that follows a resolving slice that cannot be decoded still yields its
\* own record, at its place among the records.
C5_LaterSlicesUnaffected ==
    (Returned /\ IsFatFile /\ ShapeByWidth(ContainerMagic) = 32) =>
        \A k \in 1..Len(Resolving) :
            (/\ SliceIntact(Resolving[k])
             /\ \E h \in 1..(k - 1) : SliceFails(Resolving[h]))
            => /\ Len(result) >= k
               /\ result[k] \in RecordsAlone(Resolving[k])

\* C6: whichever fat magic matched, the number of entries enumerated is
\* the byte-swapped on-disk nfat_arch.
C6_CountSwapped ==
    (IsFatFile /\ pc \in {"fatLoop", "resolve", "slice", "done"}) =>
        nfat_arch = TableCount

\* C7: the header shape follows the width class of the magic read: a thin
\* image is decoded as 64-bit exactly for MH_MAGIC_64 and MH_CIGAM_64, the
\* table is read as fat_arch_64 exactly for FAT_MAGIC_64 and FAT_CIGAM_64.
C7_ShapeMatchesWidth ==
    /\ pc \in {"slice", "thin"} => (is64Bit <=> Is64ByWidth(magic))
    /\ (pc = "resolve" /\ IsFatFile) => fa.shape = ShapeByWidth(ContainerMagic)

\* C10: every entry of one container is read in the same record shape:
\* the shape used for entry i > 0 is the shape used for the entry before.
C10_ShapeConstant ==
    [][(pc = "fatLoop" /\ pc' = "resolve" /\ idx > 0) => fa'.shape = fa.shape]_vars

====
